---- MODULE Spec2Model ----
(***************************************************************************)
(* Model of the tax-scan ingestion pipeline (extract-invoices.ts):         *)
(* runTaxAutomation scans a folder of PDF invoices, fingerprints each file *)
(* with SHA-256, skips fingerprints already in the SQLite table            *)
(* processed_invoices, extracts the others through pdf-parse and a         *)
(* language model, enriches them (tax year, date, exchange rate) and       *)
(* inserts one row per file.                                               *)
(*                                                                         *)
(* Time is counted in hours since 1 January of EpochYear, 00:00 UTC.       *)
(* Amounts are counted in thousandths of a currency unit and exchange      *)
(* rates in thousandths (1000 is the rate 1.0).                            *)
(***************************************************************************)
EXTENDS Integers, Sequences, FiniteSets, TLC

\* ------------------------------------------------------------------ bounds

\* Number of paths under ROOT_FOLDER that may hold a .pdf file.
MaxFiles == 2

\* Number of distinct file contents (byte strings) that may exist.
MaxContents == 3

\* Number of years, starting at FirstYear, the invoice dates are drawn from.
NumYears == 3

\* Largest distance of a process time zone from UTC, in hours, on either side.
MaxTzOffset == 12

\* ------------------------------------------------------------ the calendar

\* First year the invoice dates are drawn from.
FirstYear == 2022

EpochYear == FirstYear - 1

Years == FirstYear .. (FirstYear + NumYears - 1)

CalendarYears == EpochYear .. (FirstYear + NumYears + 1)

TimeZones == (0 - MaxTzOffset) .. MaxTzOffset

IsLeap(y) == (y % 4 = 0 /\ y % 100 # 0) \/ y % 400 = 0

DaysInYear(y) == IF IsLeap(y) THEN 366 ELSE 365

DaysInMonth(y, m) ==
    IF m = 2 THEN (IF IsLeap(y) THEN 29 ELSE 28)
    ELSE IF m \in {4, 6, 9, 11} THEN 30 ELSE 31

RECURSIVE DaysBeforeYear(_)
DaysBeforeYear(y) ==
    IF y <= EpochYear THEN 0 ELSE DaysBeforeYear(y - 1) + DaysInYear(y - 1)

RECURSIVE DaysBeforeMonth(_, _)
DaysBeforeMonth(y, m) ==
    IF m <= 1 THEN 0 ELSE DaysBeforeMonth(y, m - 1) + DaysInMonth(y, m - 1)

\* Day number of the civil date y-m-d, counted from 1 January of EpochYear.
DayNum(y, m, d) == DaysBeforeYear(y) + DaysBeforeMonth(y, m) + (d - 1)

\* The civil date of a day number.
CivilFromDay(n) ==
    LET y == CHOOSE yy \in CalendarYears :
                 DaysBeforeYear(yy) <= n /\ n < DaysBeforeYear(yy) + DaysInYear(yy)
        r == n - DaysBeforeYear(y)
        m == CHOOSE mm \in 1..12 :
                 DaysBeforeMonth(y, mm) <= r /\ r < DaysBeforeMonth(y, mm) + DaysInMonth(y, mm)
    IN  [y |-> y, m |-> m, d |-> r - DaysBeforeMonth(y, m) + 1]

\* A date string the language model may return.  fmt "iso" is the date-only
\* form YYYY-MM-DD, which ECMAScript parses as UTC midnight; fmt "local" is
\* any other parseable form (such as "6 April 2023"), parsed as local
\* midnight; fmt "bad" is a string Date cannot parse.
DateStr(fmt, y, m, d) == [fmt |-> fmt, y |-> y, m |-> m, d |-> d]

IsCalendarDate(s) ==
    /\ s.y \in Years
    /\ s.m \in 1..12
    /\ s.d \in 1..DaysInMonth(s.y, s.m)

NaN == 0 - 1

\* new Date(dateStr).getTime(), in hours; NaN for an Invalid Date.
NewDate(s, zone) ==
    IF s.fmt = "iso" /\ IsCalendarDate(s) THEN DayNum(s.y, s.m, s.d) * 24
    ELSE IF s.fmt = "local" /\ IsCalendarDate(s) THEN DayNum(s.y, s.m, s.d) * 24 - zone
    ELSE NaN

\* new Date(year, monthIndex, day): local midnight of that civil date.
NewDateLocal(y, m, d, zone) == DayNum(y, m, d) * 24 - zone

\* Date.prototype.getFullYear: the year of the instant t in local time.
getFullYear(t, zone) == CivilFromDay((t + zone) \div 24).y

\* A tax-year label `${from}-${to}`; Unknown is the label "Unknown".
TaxYearLabel(from, to) == [from |-> from, to |-> to]

Unknown == TaxYearLabel(0, 0)

calculateTaxYear(dateStr, zone) ==
    LET date == NewDate(dateStr, zone)
    IN  IF date = NaN THEN Unknown
        ELSE LET year == getFullYear(date, zone)
                 taxYearStart == NewDateLocal(year, 4, 6, zone)
             IN  IF date >= taxYearStart
                    THEN TaxYearLabel(year, year + 1)
                    ELSE TaxYearLabel(year - 1, year)

\* formatDate: d.toISOString().split('T')[0], the UTC civil date of the
\* instant, or the string unchanged when it does not parse.
formatDate(dateStr, zone) ==
    LET d == NewDate(dateStr, zone)
    IN  IF d = NaN THEN dateStr
        ELSE LET c == CivilFromDay(d \div 24)
             IN  DateStr("iso", c.y, c.m, c.d)

\* ------------------------------------------------------- files and folders

Procs == {1, 2}

\* Paths under ROOT_FOLDER ending in .pdf, in directory-traversal order.
Paths == 1..MaxFiles

Contents == 1..MaxContents

\* No file at a path.
NoFile == 0

\* Keywords the lower-cased full path contains.
PathWords(q) ==
    IF q % 4 = 1 THEN {"income"}
    ELSE IF q % 4 = 2 THEN {"expenditure"}
    ELSE IF q % 4 = 3 THEN {"income", "expenditure"}
    ELSE {}

\* getInvoices: the category of a scanned path.
Category(q) ==
    IF "income" \in PathWords(q) THEN "Income"
    ELSE IF "expenditure" \in PathWords(q) THEN "Expenditure"
    ELSE "Other"

RECURSIVE ScanFrom(_, _)
ScanFrom(folder, q) ==
    IF q > MaxFiles THEN <<>>
    ELSE IF folder[q] # NoFile
         THEN <<[path |-> q, category |-> Category(q)]>> \o ScanFrom(folder, q + 1)
         ELSE ScanFrom(folder, q + 1)

\* getInvoices(ROOT_FOLDER): every .pdf path that exists, with its category.
getInvoices(folder) == ScanFrom(folder, 1)

\* crypto.createHash('sha256').update(buffer).digest('hex'): one digest per
\* byte string, whatever the path.
Sha256(c) == [sha256 |-> c]

NoHash == [sha256 |-> NoFile]

\* parser.getText(): the text of a document, by its length before and after
\* trim().  Every second content is a scanned image, with a few stray
\* characters between blanks.
TextOf(c) ==
    IF c % 2 = 0 THEN [raw |-> 12, trimmed |-> 8]
    ELSE [raw |-> 40 + c, trimmed |-> 40 + c]

MinTextLength == 10

\* A check of the length of the text as extracted, blanks included.
UntrimmedTooShort(t) == t.raw = 0 \/ t.raw < MinTextLength

\* The check of lines 241-244: !text || text.trim().length < 10.
Unreadable(t) == t.raw = 0 \/ t.trimmed < MinTextLength

\* ------------------------------------------------------ the language model

Fields == {"invoiceNumber", "date", "vendorName", "totalAmount", "currency"}

\* A JSON object of the model: the keys it has, whether each value has the
\* type the schema asks for, and the values.
Invoice(has, typed, num, date, vendor, amount, cur) ==
    [has |-> has, typed |-> typed, invoiceNumber |-> num, date |-> date,
     vendorName |-> vendor, totalAmount |-> amount, currency |-> cur]

NoInvoice == Invoice({}, FALSE, "", DateStr("bad", 0, 0, 0), "", 0, "")

\* message.content of a chat response: a JSON text, possibly wrapped in
\* ```json fences, or prose that is no JSON.
Reply(fenced, json, obj) == [fenced |-> fenced, json |-> json, obj |-> obj]

\* An invoice number that holds a line break.
BrokenNumber == "INV-4\n4"

\* The number of line breaks in a string.
LineBreaks(s) == IF s = BrokenNumber THEN 1 ELSE 0

\* The replies of the model while a folder is processed: prose, a fenced
\* object with every field, and an object that lacks a field.
BatchReplies ==
    { Reply(FALSE, FALSE, NoInvoice),
      Reply(TRUE, TRUE,
            Invoice(Fields, TRUE, "INV-1", DateStr("iso", FirstYear + 1, 4, 6),
                    "Acme", 19999, "GBP")),
      Reply(FALSE, TRUE,
            Invoice(Fields \ {"vendorName"}, TRUE, "INV-3",
                    DateStr("iso", FirstYear + 1, 4, 6), "", 500, "EUR")) }

\* The replies of the model when single records are looked at: a GBP invoice
\* in lower case with three decimals, a USD invoice dated in words, an
\* invoice whose date is no date, an invoice with empty vendor and number,
\* an invoice whose number holds a line break, and prose.
RecordReplies ==
    { Reply(TRUE, TRUE,
            Invoice(Fields, TRUE, "INV-1", DateStr("iso", FirstYear + 1, 4, 6),
                    "Acme", 19999, "gbp")),
      Reply(FALSE, TRUE,
            Invoice(Fields, TRUE, "INV-2", DateStr("local", FirstYear + 1, 4, 6),
                    "Bolt", 12345, "USD")),
      Reply(FALSE, TRUE,
            Invoice(Fields, TRUE, "INV-3", DateStr("bad", 0, 0, 0),
                    "Cord", 500, "EUR")),
      Reply(FALSE, TRUE,
            Invoice(Fields, TRUE, "", DateStr("iso", FirstYear, 12, 31),
                    "", 2000, "GBP")),
      Reply(FALSE, TRUE,
            Invoice(Fields, TRUE, BrokenNumber, DateStr("iso", FirstYear, 1, 15),
                    "Dune", 1005, "eur")),
      Reply(FALSE, FALSE, NoInvoice) }

\* content.replace(/```json|```/g, ""): the fences are removed.
StripFences(r) == Reply(FALSE, r.json, r.obj)

\* JSON.parse succeeds on a JSON text without fences.
JsonParses(r) == r.json /\ ~r.fenced

\* InvoiceSchema.parse: every key present with a value of its type.
SchemaAccepts(o) == o.has = Fields /\ o.typed

toUpperCase(s) ==
    IF s = "gbp" THEN "GBP"
    ELSE IF s = "usd" THEN "USD"
    ELSE IF s = "eur" THEN "EUR"
    ELSE s

\* ------------------------------------------------------------ exchange rate

Undefined == 0 - 1

\* What the rate service answers: the request throws (ok is FALSE), or the
\* response carries rates.GBP, or carries none (Undefined).
RateReplies ==
    { [ok |-> FALSE, gbp |-> Undefined],
      [ok |-> TRUE, gbp |-> Undefined],
      [ok |-> TRUE, gbp |-> 790] }

\* Line 82: currency.toUpperCase() === 'GBP'.
IsBaseCurrency(currency) == toUpperCase(currency) = "GBP"

\* getExchangeRateToGBP, given the answer of the service; null is Undefined.
getExchangeRateToGBP(currency, answer) ==
    IF IsBaseCurrency(currency) THEN 1000
    ELSE IF answer.ok THEN answer.gbp
    ELSE Undefined

\* A rate that is used as the service gave it.
OrNothing(r) == r

\* The ?? 1 of line 273.
OrOne(r) == IF r = Undefined THEN 1000 ELSE r

\* The amounts and rates of the model whose product, computed in binary
\* floating point, lies below the decimal product: 1.005 * 1 is the double
\* 1.00499999999999989...
LiesBelow == { <<1005, 1000>> }

\* A conversion that cuts the digits after the second decimal.
Truncate2(amount, r) == ((amount * r) \div 10000) * 10

\* Number((amount * rate).toFixed(2)): amount in thousandths, rate in
\* thousandths, the result in thousandths with two decimals kept.  toFixed
\* takes the nearest two-decimal number to the double, the larger of two
\* equally near ones; a product that in decimal lies halfway goes down when
\* its double lies below.
ToFixed2(amount, r) ==
    IF (amount * r) % 10000 = 5000 /\ <<amount, r>> \in LiesBelow
       THEN ((amount * r) \div 10000) * 10
       ELSE (((amount * r) + 5000) \div 10000) * 10

\* ----------------------------------------------------------------- ledger

\* The SQLite file: whether processed_invoices exists, and its rows in
\* rowid order.
NoDatabase == [exists |-> FALSE, rows |-> <<>>]

\* A start that creates the table anew whether or not it is there.
RecreateTable(d) == [exists |-> TRUE, rows |-> <<>>]

\* CREATE TABLE IF NOT EXISTS processed_invoices (lines 39-55).
CreateTable(d) == IF d.exists THEN d ELSE [exists |-> TRUE, rows |-> <<>>]

\* A lookup that never finds a row.
NeverSelected(d, h) == FALSE

\* SELECT id FROM processed_invoices WHERE file_hash = ? returns a row.
SelectByHash(d, h) == \E k \in 1..Len(d.rows) : d.rows[k].file_hash = h

\* A column file_hash without the UNIQUE constraint.
NeverViolated(d, h) == FALSE

\* file_hash TEXT UNIQUE: an insert of a hash already stored is rejected.
UniqueViolated(d, h) == \E k \in 1..Len(d.rows) : d.rows[k].file_hash = h

\* INSERT INTO processed_invoices: id is the next rowid and processed_at
\* the current timestamp.
InsertRow(d, r, clock) ==
    [d EXCEPT !.rows = Append(d.rows,
        [id |-> Len(d.rows) + 1, processed_at |-> clock] @@ r)]

\* Tax-Summary.csv: absent, or the lines of text after the header that the
\* last export wrote.
NoReport == [written |-> FALSE, lines |-> <<>>]

\* The text the template of lines 110-112 gives for a row, as its fields.
CsvLine(r) ==
    [date |-> r.date, category |-> r.category, tax_year |-> r.tax_year,
     vendor |-> r.vendor, invoice_num |-> r.invoice_num,
     total_original |-> r.total_original, currency |-> r.currency,
     exchange_rate |-> r.exchange_rate, total_gbp |-> r.total_gbp]

\* The text of a stored date, as a number that orders like the text does.
DateKey(s) == IF s.fmt = "iso" THEN s.y * 10000 + s.m * 100 + s.d ELSE 99999999

RECURSIVE OrderByDateDesc(_)
OrderByDateDesc(rows) ==
    IF rows = <<>> THEN <<>>
    ELSE LET k == CHOOSE a \in 1..Len(rows) :
                    \A b \in 1..Len(rows) :
                        \/ DateKey(rows[a].date) > DateKey(rows[b].date)
                        \/ DateKey(rows[a].date) = DateKey(rows[b].date) /\ a <= b
             rest == [j \in 1..(Len(rows) - 1) |-> IF j < k THEN rows[j] ELSE rows[j + 1]]
         IN  <<rows[k]>> \o OrderByDateDesc(rest)

\* The lines of text one row takes in the file: the template puts
\* invoice_num and currency between commas without quotes, so a line break
\* in one of them ends the line.
TextLines(l) ==
    [j \in 1..(1 + LineBreaks(l.invoice_num) + LineBreaks(l.currency)) |->
        [of |-> l, piece |-> j]]

\* rows.map(...).join("\n") (lines 110-112), as lines of text.
RECURSIVE JoinLines(_)
JoinLines(rows) ==
    IF rows = <<>> THEN <<>>
    ELSE TextLines(CsvLine(Head(rows))) \o JoinLines(Tail(rows))

\* An export that opens the file for appending.
AppendToReport(d, report) ==
    LET rows == OrderByDateDesc(d.rows)
    IN  IF Len(rows) = 0 THEN report
        ELSE [written |-> TRUE, lines |-> report.lines \o JoinLines(rows)]

\* exportToCSV (lines 105-121): nothing is written for an empty table;
\* otherwise the file is replaced by the header and the text of the rows.
exportToCSV(d, report) ==
    LET rows == OrderByDateDesc(d.rows)
    IN  IF Len(rows) = 0 THEN report
        ELSE [written |-> TRUE, lines |-> JoinLines(rows)]

\* ------------------------------------------------------------------ state

VARIABLES
    tz,          \* time zone of the host, hours east of UTC
    fs,          \* ROOT_FOLDER: path -> content, NoFile where there is none
    db,          \* the SQLite database Tax-Summary.db
    csv,         \* the report Tax-Summary.csv
    now,         \* CURRENT_TIMESTAMP, a logical clock
    llm,         \* the replies the language model may give
    pc,          \* per process: where the process is
    files,       \* per process: the scanned list
    i,           \* per process: loop index, from 1
    newlyAdded,  \* per process: counter of line 218
    errors,      \* per process: counter of line 219
    hash,        \* per process: hash of the current file
    buf,         \* per process: dataBuffer of the current file
    inv,         \* per process: the validated model output
    rate,        \* per process: rate of the current file
    outcome,     \* per process: how each scanned file ended
    extracted,   \* per process: indexes getText was called for
    chatted,     \* per process: indexes ollama.chat was called for
    sent,        \* per process: notifications delivered
    fetched,     \* per process: the rate requests made and their answers
    paused,      \* per process: milliseconds of delay after each scanned file
    startLen,    \* per process: rows in the table when the run began
    resumed,     \* per process: the run follows an interrupted run
    root,        \* per process: what the process read for ROOT_FOLDER
    arg,         \* input of a function applied on its own
    ret          \* its result

vars == <<tz, fs, db, csv, now, llm, pc, files, i, newlyAdded, errors, hash, buf,
          inv, rate, outcome, extracted, chatted, sent, fetched, paused,
          startLen, resumed, root,
          arg, ret>>

shared == <<tz, fs, db, csv, now, llm>>

locals == <<hash, buf, inv, rate>>

history == <<outcome, extracted, chatted, sent, fetched, paused, startLen, resumed>>

pure == <<arg, ret>>

\* The pause after a file that was logged (line 300), in milliseconds.
DelayOkMs == 250

\* The pause after a file that failed (line 311), in milliseconds.
DelayErrMs == 1000

\* A process that is not running runTaxAutomation.
Stopped == {"idle", "exit1", "done", "rejected", "killed"}

\* No process image: the program can be started.
Gone == {"idle", "killed"}

NoArg == [fn |-> "none", date |-> DateStr("bad", 0, 0, 0), zone |-> 0]

NoRet == [set |-> FALSE, taxYear |-> Unknown]

InitRun ==
    /\ pc = [p \in Procs |-> "idle"]
    /\ files = [p \in Procs |-> <<>>]
    /\ i = [p \in Procs |-> 1]
    /\ newlyAdded = [p \in Procs |-> 0]
    /\ errors = [p \in Procs |-> 0]
    /\ hash = [p \in Procs |-> NoHash]
    /\ buf = [p \in Procs |-> NoFile]
    /\ inv = [p \in Procs |-> NoInvoice]
    /\ rate = [p \in Procs |-> Undefined]
    /\ outcome = [p \in Procs |-> <<>>]
    /\ extracted = [p \in Procs |-> {}]
    /\ chatted = [p \in Procs |-> {}]
    /\ sent = [p \in Procs |-> {}]
    /\ fetched = [p \in Procs |-> {}]
    /\ paused = [p \in Procs |-> <<>>]
    /\ startLen = [p \in Procs |-> 0]
    /\ resumed = [p \in Procs |-> FALSE]
    /\ root = [p \in Procs |-> "unread"]

\* The zone the pipeline is run in: British Summer Time.
HostZones == {1}

Init ==
    /\ tz \in HostZones
    /\ fs = [q \in Paths |-> NoFile]
    /\ db = NoDatabase
    /\ csv = NoReport
    /\ now = 0
    /\ llm = BatchReplies
    /\ InitRun
    /\ arg = NoArg
    /\ ret = NoRet

\* ---------------------------------------------------------------- actions

Note(kind, file, new, errs) == [kind |-> kind, file |-> file, new |-> new, errs |-> errs]

\* A loop that steps over a file: i += 2.
NextButOne(p) ==
    /\ i' = [i EXCEPT ![p] = @ + 2]
    /\ pc' = [pc EXCEPT ![p] = IF i[p] + 2 > Len(files[p]) THEN "export" ELSE "hash"]
    /\ hash' = [hash EXCEPT ![p] = NoHash]
    /\ buf' = [buf EXCEPT ![p] = NoFile]
    /\ inv' = [inv EXCEPT ![p] = NoInvoice]
    /\ rate' = [rate EXCEPT ![p] = Undefined]

\* The end of one iteration: i++ and the test of line 221; the constants of
\* the loop body go out of scope.
NextFile(p) ==
    /\ i' = [i EXCEPT ![p] = @ + 1]
    /\ pc' = [pc EXCEPT ![p] = IF i[p] + 1 > Len(files[p]) THEN "export" ELSE "hash"]
    /\ hash' = [hash EXCEPT ![p] = NoHash]
    /\ buf' = [buf EXCEPT ![p] = NoFile]
    /\ inv' = [inv EXCEPT ![p] = NoInvoice]
    /\ rate' = [rate EXCEPT ![p] = Undefined]

\* An exception thrown inside the try block: control moves to the catch of
\* line 301, which counts an error (line 302) and then notifies.
Caught(p, stage) ==
    /\ errors' = [errors EXCEPT ![p] = @ + 1]
    /\ outcome' = [outcome EXCEPT ![p][i[p]] = stage]
    /\ pc' = [pc EXCEPT ![p] = "notifyErr"]

\* A process image is gone: nothing of the run is kept but where it stopped.
ResetRun(p) ==
    /\ files' = [files EXCEPT ![p] = <<>>]
    /\ i' = [i EXCEPT ![p] = 1]
    /\ newlyAdded' = [newlyAdded EXCEPT ![p] = 0]
    /\ errors' = [errors EXCEPT ![p] = 0]
    /\ hash' = [hash EXCEPT ![p] = NoHash]
    /\ buf' = [buf EXCEPT ![p] = NoFile]
    /\ inv' = [inv EXCEPT ![p] = NoInvoice]
    /\ rate' = [rate EXCEPT ![p] = Undefined]
    /\ outcome' = [outcome EXCEPT ![p] = <<>>]
    /\ extracted' = [extracted EXCEPT ![p] = {}]
    /\ chatted' = [chatted EXCEPT ![p] = {}]
    /\ sent' = [sent EXCEPT ![p] = {}]
    /\ fetched' = [fetched EXCEPT ![p] = {}]
    /\ paused' = [paused EXCEPT ![p] = <<>>]
    /\ startLen' = [startLen EXCEPT ![p] = 0]

\* A check that finds ROOT_FOLDER whatever the environment holds.
NeverMissing(value) == FALSE

\* Line 32: !ROOT_FOLDER.
RootFolderMissing(value) == value = "missing"

\* The program is started (lines 30-55): ROOT_FOLDER is read from the
\* environment, the database is opened and the table created when it is
\* not there; then runTaxAutomation is called (line 323).
Start(p) ==
    /\ pc[p] \in Gone
    /\ \E value \in {"set", "missing"} :
         /\ root' = [root EXCEPT ![p] = value]
         /\ IF RootFolderMissing(value)
               THEN /\ db' = db
                    /\ pc' = [pc EXCEPT ![p] = "exit1"]
               ELSE /\ db' = CreateTable(db)
                    /\ pc' = [pc EXCEPT ![p] = "scan"]
    /\ ResetRun(p)
    /\ resumed' = [resumed EXCEPT ![p] = (pc[p] = "killed")]
    /\ UNCHANGED <<tz, fs, csv, now, llm, pure>>

\* Lines 214-219: the folder is scanned and the counters are set to 0.
Scan(p) ==
    /\ pc[p] = "scan"
    /\ files' = [files EXCEPT ![p] = getInvoices(fs)]
    /\ outcome' = [outcome EXCEPT ![p] = [k \in 1..Len(getInvoices(fs)) |-> "pending"]]
    /\ paused' = [paused EXCEPT ![p] = [k \in 1..Len(getInvoices(fs)) |-> 0]]
    /\ startLen' = [startLen EXCEPT ![p] = Len(db.rows)]
    /\ pc' = [pc EXCEPT ![p] = IF Len(getInvoices(fs)) = 0 THEN "export" ELSE "hash"]
    /\ UNCHANGED <<shared, i, newlyAdded, errors, locals, extracted, chatted, sent,
                   fetched, resumed, root, pure>>

\* Line 226: getFileHash reads the file and digests it.
HashFile(p) ==
    /\ pc[p] = "hash"
    /\ hash' = [hash EXCEPT ![p] = Sha256(fs[files[p][i[p]].path])]
    /\ pc' = [pc EXCEPT ![p] = "lookup"]
    /\ UNCHANGED <<shared, files, i, newlyAdded, errors, buf, inv, rate, history,
                   root, pure>>

\* Line 226: fs.readFile rejects (the file cannot be read).
HashFails(p) ==
    /\ pc[p] = "hash"
    /\ Caught(p, "io")
    /\ UNCHANGED <<shared, files, i, newlyAdded, locals, extracted, chatted, sent,
                   fetched, paused, startLen, resumed, root, pure>>

\* A skip that is counted as an error before the loop goes on.
LookupHitCounted(p) ==
    /\ pc[p] = "lookup"
    /\ SelectByHash(db, hash[p])
    /\ outcome' = [outcome EXCEPT ![p][i[p]] = "skipped"]
    /\ errors' = [errors EXCEPT ![p] = @ + 1]
    /\ NextFile(p)
    /\ UNCHANGED <<shared, files, newlyAdded, extracted, chatted, sent,
                   fetched, paused, startLen, resumed, root, pure>>

\* Lines 227-229: the fingerprint is in the table: continue.
LookupHit(p) ==
    /\ pc[p] = "lookup"
    /\ SelectByHash(db, hash[p])
    /\ outcome' = [outcome EXCEPT ![p][i[p]] = "skipped"]
    /\ NextFile(p)
    /\ UNCHANGED <<shared, files, newlyAdded, errors, extracted, chatted, sent,
                   fetched, paused, startLen, resumed, root, pure>>

\* Line 227: the fingerprint is not in the table.
LookupMiss(p) ==
    /\ pc[p] = "lookup"
    /\ ~SelectByHash(db, hash[p])
    /\ pc' = [pc EXCEPT ![p] = "read"]
    /\ UNCHANGED <<shared, files, i, newlyAdded, errors, locals, history, root, pure>>

\* Line 227: the SELECT throws (the database cannot be read).
LookupFails(p) ==
    /\ pc[p] = "lookup"
    /\ Caught(p, "store")
    /\ UNCHANGED <<shared, files, i, newlyAdded, locals, extracted, chatted, sent,
                   fetched, paused, startLen, resumed, root, pure>>

\* Lines 232-244: the file is read again, its text extracted and checked.
ReadText(p) ==
    /\ pc[p] = "read"
    /\ buf' = [buf EXCEPT ![p] = fs[files[p][i[p]].path]]
    /\ extracted' = [extracted EXCEPT ![p] = @ \cup {i[p]}]
    /\ IF Unreadable(TextOf(fs[files[p][i[p]].path]))
          THEN Caught(p, "unreadable")
          ELSE /\ pc' = [pc EXCEPT ![p] = "chat"]
               /\ UNCHANGED <<errors, outcome>>
    /\ UNCHANGED <<shared, files, i, newlyAdded, hash, inv, rate, chatted, sent,
                   fetched, paused, startLen, resumed, root, pure>>

\* Lines 232-239: fs.readFile or parser.getText rejects.
ReadFails(p) ==
    /\ pc[p] = "read"
    /\ extracted' = [extracted EXCEPT ![p] = @ \cup {i[p]}]
    /\ Caught(p, "io")
    /\ UNCHANGED <<shared, files, i, newlyAdded, locals, chatted, sent,
                   fetched, paused, startLen, resumed, root, pure>>

\* Lines 248-270: the model is asked, its answer stripped of fences, parsed
\* and validated.
Chat(p) ==
    /\ pc[p] = "chat"
    /\ chatted' = [chatted EXCEPT ![p] = @ \cup {i[p]}]
    /\ \E r \in llm :
         LET c == StripFences(r)
         IN  IF ~JsonParses(c)
                THEN Caught(p, "invalid") /\ inv' = inv
                ELSE IF ~SchemaAccepts(c.obj)
                        THEN Caught(p, "invalid") /\ inv' = inv
                        ELSE /\ inv' = [inv EXCEPT ![p] = c.obj]
                             /\ pc' = [pc EXCEPT ![p] = "rate"]
                             /\ UNCHANGED <<errors, outcome>>
    /\ UNCHANGED <<shared, files, i, newlyAdded, hash, buf, rate, extracted, sent,
                   fetched, paused, startLen, resumed, root, pure>>

\* Line 248: ollama.chat rejects.
ChatFails(p) ==
    /\ pc[p] = "chat"
    /\ chatted' = [chatted EXCEPT ![p] = @ \cup {i[p]}]
    /\ Caught(p, "io")
    /\ UNCHANGED <<shared, files, i, newlyAdded, locals, extracted, sent,
                   fetched, paused, startLen, resumed, root, pure>>

\* Line 273: the rate of the invoice currency, 1 when there is none.  The
\* service is asked (line 84) unless the currency is GBP.
Rate(p) ==
    /\ pc[p] = "rate"
    /\ \E answer \in RateReplies :
         /\ rate' = [rate EXCEPT ![p] = OrOne(getExchangeRateToGBP(inv[p].currency, answer))]
         /\ fetched' = [fetched EXCEPT ![p] =
                IF IsBaseCurrency(inv[p].currency) THEN @
                ELSE @ \cup {[file |-> i[p], answer |-> answer]}]
    /\ pc' = [pc EXCEPT ![p] = "insert"]
    /\ UNCHANGED <<shared, files, i, newlyAdded, errors, hash, buf, inv, outcome,
                   extracted, chatted, sent, paused, startLen, resumed, root, pure>>

\* The row of lines 280-292.
NewRow(p) ==
    [file_hash |-> hash[p],
     file_path |-> files[p][i[p]].path,
     vendor |-> inv[p].vendorName,
     invoice_num |-> inv[p].invoiceNumber,
     date |-> formatDate(inv[p].date, tz),
     tax_year |-> calculateTaxYear(inv[p].date, tz),
     category |-> files[p][i[p]].category,
     currency |-> toUpperCase(inv[p].currency),
     total_original |-> inv[p].totalAmount,
     exchange_rate |-> rate[p],
     total_gbp |-> ToFixed2(inv[p].totalAmount, rate[p])]

\* Lines 276-296: the insert, which the UNIQUE constraint may reject, then
\* the tags and newlyAdded++.
Insert(p) ==
    /\ pc[p] = "insert"
    /\ IF UniqueViolated(db, hash[p])
          THEN /\ Caught(p, "duplicate")
               /\ UNCHANGED <<db, now, newlyAdded>>
          ELSE /\ db' = InsertRow(db, NewRow(p), now)
               /\ now' = now + 1
               /\ newlyAdded' = [newlyAdded EXCEPT ![p] = @ + 1]
               /\ outcome' = [outcome EXCEPT ![p][i[p]] = "persisted"]
               /\ pc' = [pc EXCEPT ![p] = "notifyOk"]
               /\ UNCHANGED errors
    /\ UNCHANGED <<tz, fs, csv, llm, files, i, locals, extracted, chatted, sent,
                   fetched, paused, startLen, resumed, root, pure>>

\* Line 280: the INSERT throws for another reason than the constraint.
InsertFails(p) ==
    /\ pc[p] = "insert"
    /\ Caught(p, "store")
    /\ UNCHANGED <<shared, files, i, newlyAdded, locals, extracted, chatted, sent,
                   fetched, paused, startLen, resumed, root, pure>>

\* Line 297: the success notification is shown.
NotifyOk(p) ==
    /\ pc[p] = "notifyOk"
    /\ sent' = [sent EXCEPT ![p] = @ \cup {Note("logged", i[p], 0, 0)}]
    /\ pc' = [pc EXCEPT ![p] = "delayOk"]
    /\ UNCHANGED <<shared, files, i, newlyAdded, errors, locals, outcome, extracted,
                   chatted, fetched, paused, startLen, resumed, root, pure>>

\* Line 297: execSync throws (osascript fails); the throw is inside the try.
NotifyOkFails(p) ==
    /\ pc[p] = "notifyOk"
    /\ Caught(p, "notify")
    /\ UNCHANGED <<shared, files, i, newlyAdded, locals, extracted, chatted, sent,
                   fetched, paused, startLen, resumed, root, pure>>

\* Line 300: delay(250).
DelayOk(p) ==
    /\ pc[p] = "delayOk"
    /\ paused' = [paused EXCEPT ![p][i[p]] = DelayOkMs]
    /\ NextFile(p)
    /\ UNCHANGED <<shared, files, newlyAdded, errors, outcome, extracted, chatted,
                   sent, fetched, startLen, resumed, root, pure>>

\* Line 308: the failure notification is shown.
NotifyErr(p) ==
    /\ pc[p] = "notifyErr"
    /\ sent' = [sent EXCEPT ![p] = @ \cup {Note("error", i[p], 0, 0)}]
    /\ pc' = [pc EXCEPT ![p] = "delayErr"]
    /\ UNCHANGED <<shared, files, i, newlyAdded, errors, locals, outcome, extracted,
                   chatted, fetched, paused, startLen, resumed, root, pure>>

\* Line 308: execSync throws inside the catch block: nothing catches it and
\* the promise of runTaxAutomation is rejected.
NotifyErrFails(p) ==
    /\ pc[p] = "notifyErr"
    /\ pc' = [pc EXCEPT ![p] = "rejected"]
    /\ UNCHANGED <<shared, files, i, newlyAdded, errors, locals, history, root, pure>>

\* A catch block that goes to the next file without a pause.
DelayErrSkipped(p) ==
    /\ pc[p] = "delayErr"
    /\ NextFile(p)
    /\ UNCHANGED <<shared, files, newlyAdded, errors, history, root, pure>>

\* Line 311: delay(1000).
DelayErr(p) ==
    /\ pc[p] = "delayErr"
    /\ paused' = [paused EXCEPT ![p][i[p]] = DelayErrMs]
    /\ NextFile(p)
    /\ UNCHANGED <<shared, files, newlyAdded, errors, outcome, extracted, chatted,
                   sent, fetched, startLen, resumed, root, pure>>

\* Lines 315-318: the report is exported when the run added a row.
Export(p) ==
    /\ pc[p] = "export"
    /\ csv' = IF newlyAdded[p] > 0 THEN exportToCSV(db, csv) ELSE csv
    /\ pc' = [pc EXCEPT ![p] = "summary"]
    /\ UNCHANGED <<tz, fs, db, now, llm, files, i, newlyAdded, errors, locals, history,
                   root, pure>>

\* Line 320: the summary notification is shown.
Summary(p) ==
    /\ pc[p] = "summary"
    /\ sent' = [sent EXCEPT ![p] = @ \cup {Note("summary", 0, newlyAdded[p], errors[p])}]
    /\ pc' = [pc EXCEPT ![p] = "done"]
    /\ UNCHANGED <<shared, files, i, newlyAdded, errors, locals, outcome, extracted,
                   chatted, fetched, paused, startLen, resumed, root, pure>>

\* Line 320: execSync throws after the loop.
SummaryFails(p) ==
    /\ pc[p] = "summary"
    /\ pc' = [pc EXCEPT ![p] = "rejected"]
    /\ UNCHANGED <<shared, files, i, newlyAdded, errors, locals, history, root, pure>>

\* The process ends: process.exit(1) of line 34, or the event loop is empty
\* after the promise of line 323 is settled.
Exit(p) ==
    /\ pc[p] \in Stopped \ Gone
    /\ pc' = [pc EXCEPT ![p] = "idle"]
    /\ ResetRun(p)
    /\ resumed' = [resumed EXCEPT ![p] = FALSE]
    /\ root' = [root EXCEPT ![p] = "unread"]
    /\ UNCHANGED <<shared, pure>>

\* The process is killed while it runs.
Kill(p) ==
    /\ pc[p] \notin Stopped
    /\ pc' = [pc EXCEPT ![p] = "killed"]
    /\ ResetRun(p)
    /\ resumed' = [resumed EXCEPT ![p] = FALSE]
    /\ root' = [root EXCEPT ![p] = "unread"]
    /\ UNCHANGED <<shared, pure>>

\* Between runs a file is added, replaced, or removed; a rename or a move
\* is a removal and an addition.
FolderChange ==
    /\ \A p \in Procs : pc[p] \in Gone
    /\ \E q \in Paths, c \in Contents \cup {NoFile} :
         /\ fs[q] # c
         /\ fs' = [fs EXCEPT ![q] = c]
    /\ pc' = [p \in Procs |-> "idle"]
    /\ resumed' = [p \in Procs |-> FALSE]
    /\ UNCHANGED <<tz, db, csv, now, llm, files, i, newlyAdded, errors, locals,
                   outcome, extracted, chatted, sent, fetched, paused, startLen, root, pure>>

\* One step of the run of process p when nothing outside the pipeline fails.
Step(p) ==
    \/ Start(p)
    \/ Scan(p)
    \/ HashFile(p)
    \/ LookupHit(p)
    \/ LookupMiss(p)
    \/ ReadText(p)
    \/ Chat(p)
    \/ Rate(p)
    \/ Insert(p)
    \/ NotifyOk(p)
    \/ DelayOk(p)
    \/ NotifyErr(p)
    \/ DelayErr(p)
    \/ Export(p)
    \/ Summary(p)
    \/ Exit(p)

\* One step in which a collaborator of process p fails.
Fault(p) ==
    \/ HashFails(p)
    \/ LookupFails(p)
    \/ ReadFails(p)
    \/ ChatFails(p)
    \/ InsertFails(p)
    \/ NotifyOkFails(p)
    \/ NotifyErrFails(p)
    \/ SummaryFails(p)

\* One process, run any number of times while the folder changes between
\* runs, with faults of the collaborators.
Next ==
    \/ Step(1)
    \/ Fault(1)
    \/ FolderChange

Spec == Init /\ [][Next]_vars

\* Any folder, an empty ledger.
InitResume ==
    /\ tz \in HostZones
    /\ fs \in [Paths -> Contents \cup {NoFile}]
    /\ db = NoDatabase
    /\ csv = NoReport
    /\ now = 0
    /\ llm = BatchReplies
    /\ InitRun
    /\ arg = NoArg
    /\ ret = NoRet

\* One process, run any number of times over the same folder, with faults,
\* and killed at any step.
NextResume ==
    \/ Step(1)
    \/ Fault(1)
    \/ Kill(1)

SpecResume == InitResume /\ [][NextResume]_vars

\* Two processes run the program at once on the same folder and database
\* (a scheduled run starts while another is still going); the collaborators
\* answer.
NextConc ==
    \/ \E p \in Procs : Step(p)
    \/ FolderChange

SpecConc == Init /\ [][NextConc]_vars

\* The zones single records are looked at in: New York in winter, UTC, and
\* British Summer Time.
RecordZones == {0 - 5, 0, 1}

\* A folder of two readable invoices with different bytes, an empty ledger,
\* and a model that may give any of RecordReplies.
InitRecord ==
    /\ tz \in RecordZones
    /\ fs = [q \in Paths |-> IF q = 1 THEN 1 ELSE IF q = 2 THEN 3 ELSE NoFile]
    /\ db = NoDatabase
    /\ csv = NoReport
    /\ now = 0
    /\ llm = RecordReplies
    /\ InitRun
    /\ arg = NoArg
    /\ ret = NoRet

\* One process, run any number of times over the same folder, with faults
\* and interruptions.
NextRecord ==
    \/ Step(1)
    \/ Fault(1)
    \/ Kill(1)

SpecRecord == InitRecord /\ [][NextRecord]_vars

\* While a run goes on, something outside the program (folder sync, an
\* editor) replaces the bytes of a file of the folder; the path stays.
SyncWrite ==
    /\ \E p \in Procs : pc[p] \notin Stopped
    /\ \E q \in Paths, c \in Contents :
         /\ fs[q] # NoFile
         /\ fs[q] # c
         /\ fs' = [fs EXCEPT ![q] = c]
    /\ UNCHANGED <<tz, db, csv, now, llm, pc, files, i, newlyAdded, errors, locals,
                   history, root, pure>>

\* A folder of two readable invoices with different bytes and an empty
\* ledger.
InitSync ==
    /\ tz \in HostZones
    /\ fs = [q \in Paths |-> IF q = 1 THEN 1 ELSE IF q = 2 THEN 3 ELSE NoFile]
    /\ db = NoDatabase
    /\ csv = NoReport
    /\ now = 0
    /\ llm = BatchReplies
    /\ InitRun
    /\ arg = NoArg
    /\ ret = NoRet

\* One process, run any number of times, while the files of the folder are
\* written to from outside; the collaborators answer.
NextSync ==
    \/ Step(1)
    \/ SyncWrite

SpecSync == InitSync /\ [][NextSync]_vars

\* calculateTaxYear applied on its own to a date string, in a time zone.
DateStrings ==
    { DateStr("iso", y, m, d) : y \in Years, m \in 1..12, d \in 1..31 }

InitTaxYear ==
    /\ arg \in { [fn |-> "calculateTaxYear", date |-> s, zone |-> z] :
                   s \in { t \in DateStrings : IsCalendarDate(t) }, z \in TimeZones }
    /\ ret = NoRet
    /\ tz = arg.zone
    /\ fs = [q \in Paths |-> NoFile]
    /\ db = NoDatabase
    /\ csv = NoReport
    /\ now = 0
    /\ llm = BatchReplies
    /\ InitRun

ApplyTaxYear ==
    /\ arg.fn = "calculateTaxYear"
    /\ ~ret.set
    /\ ret' = [set |-> TRUE, taxYear |-> calculateTaxYear(arg.date, tz)]
    /\ UNCHANGED <<shared, pc, files, i, newlyAdded, errors, locals, history, root,
                   arg>>

SpecTaxYear == InitTaxYear /\ [][ApplyTaxYear]_vars

\* ------------------------------------------------------------- properties

Hashes(rows) == { rows[k].file_hash : k \in 1..Len(rows) }

\* The fingerprints of the files process p scanned.
ScannedHashes(p) == { Sha256(fs[files[p][k].path]) : k \in 1..Len(files[p]) }

\* The fingerprints stored before the run of process p scanned the folder.
KnownAtStart(p) == Hashes(SubSeq(db.rows, 1, startLen[p]))

DistinctContents(p) ==
    \A j, k \in 1..Len(files[p]) :
        j # k => fs[files[p][j].path] # fs[files[p][k].path]

Failed == {"unreadable", "invalid", "io", "store", "duplicate", "notify"}

Malformed == {"unreadable", "invalid"}

CountOutcomes(p, kinds) ==
    Cardinality({ k \in DOMAIN outcome[p] : outcome[p][k] \in kinds })

\* C1: no two rows of processed_invoices have the same file_hash, whatever
\* the runs, the paths the bytes appear under, and the way runs overlap.
C1_UniqueFingerprint ==
    \A j, k \in 1..Len(db.rows) :
        j # k => db.rows[j].file_hash # db.rows[k].file_hash

\* Two runs passed the existence check for the same bytes; the second insert
\* was rejected and the bytes are stored once.
C1_Witness ==
    \E p \in Procs :
        /\ pc[p] = "notifyErr"
        /\ outcome[p][i[p]] = "duplicate"
        /\ Cardinality({ k \in 1..Len(db.rows) : db.rows[k].file_hash = hash[p] }) = 1

\* C2: the step of a run whose lookup finds the fingerprint of the current
\* file in the ledger ends the file as skipped and goes to the next file (or
\* to the end of the loop): no extraction, no model call, no error counted,
\* no notification, and the ledger unchanged.
C2_DuplicateSkipped ==
    [][\A p \in Procs :
          ( /\ pc[p] = "lookup"
            /\ hash[p] \in Hashes(db.rows)
            /\ pc'[p] \notin {"lookup", "killed"}
            /\ outcome'[p][i[p]] # "store" )
          => /\ outcome'[p][i[p]] = "skipped"
             /\ i'[p] = i[p] + 1
             /\ pc'[p] \in {"hash", "export"}
             /\ errors'[p] = errors[p]
             /\ newlyAdded'[p] = newlyAdded[p]
             /\ sent'[p] = sent[p]
             /\ extracted'[p] = extracted[p]
             /\ chatted'[p] = chatted[p]
             /\ db' = db]_vars

\* A scan held the same bytes under two paths: the first was persisted and
\* the second skipped, with no extraction and no error.
C2_Witness ==
    \E p \in Procs :
        /\ Len(files[p]) = 2
        /\ fs[files[p][1].path] = fs[files[p][2].path]
        /\ outcome[p] = <<"persisted", "skipped">>
        /\ extracted[p] = {1}
        /\ errors[p] = 0

\* C3: a run extracts only files whose fingerprint had no ledger record when
\* the run began; and when a run restarted after an interruption completes
\* with every extraction and insert succeeding, the ledger holds exactly one
\* record for each scanned fingerprint, as an uninterrupted run would leave,
\* having extracted only the files that had no record.
C3_Resumable ==
    \A p \in Procs :
        /\ \A k \in extracted[p] :
              Sha256(fs[files[p][k].path]) \notin KnownAtStart(p)
        /\ ( /\ pc[p] = "done"
             /\ \A k \in DOMAIN outcome[p] :
                   outcome[p][k] \in {"skipped", "persisted", "notify"} )
           => /\ ScannedHashes(p) \subseteq Hashes(db.rows)
              /\ Cardinality({ k \in 1..Len(db.rows) :
                                 db.rows[k].file_hash \in ScannedHashes(p) })
                   = Cardinality(ScannedHashes(p))
              /\ extracted[p] =
                   { k \in 1..Len(files[p]) :
                       /\ Sha256(fs[files[p][k].path]) \notin KnownAtStart(p)
                       /\ \A j \in 1..(k - 1) :
                             fs[files[p][j].path] # fs[files[p][k].path] }

\* A run over two files with distinct contents was killed after the first
\* was persisted; the restarted run skipped it, extracted the second only,
\* and completed with both stored.
C3_Witness ==
    /\ resumed[1]
    /\ pc[1] = "done"
    /\ Len(files[1]) = 2
    /\ DistinctContents(1)
    /\ startLen[1] = 1
    /\ outcome[1] = <<"skipped", "persisted">>
    /\ extracted[1] = {2}
    /\ Len(db.rows) = 2

\* C4: a completed run over files with distinct, not yet ingested contents,
\* of which exactly one is malformed and every other is extracted and
\* inserted, leaves a record for each of the others, none for the malformed
\* one, an error counter of exactly 1, and has visited every file.
C4_PartialFailureIsolation ==
    \A p \in Procs :
        ( /\ pc[p] = "done"
          /\ DistinctContents(p)
          /\ ScannedHashes(p) \cap KnownAtStart(p) = {}
          /\ CountOutcomes(p, Malformed) = 1
          /\ \A k \in DOMAIN outcome[p] :
                outcome[p][k] \in Malformed \cup {"persisted", "notify"} )
        => /\ errors[p] = 1
           /\ i[p] = Len(files[p]) + 1
           /\ \A k \in DOMAIN outcome[p] :
                 (outcome[p][k] \notin Malformed)
                    <=> (Sha256(fs[files[p][k].path]) \in Hashes(db.rows))

\* C5: a failing notification changes nothing of the run: the error counter
\* counts only the files that failed in the pipeline, newlyAdded counts the
\* inserted files, and no run ends with a scanned file not visited.
C5_NotifierHarmless ==
    \A p \in Procs :
        /\ pc[p] = "rejected" => CountOutcomes(p, {"pending"}) = 0
        /\ errors[p] = CountOutcomes(p, Failed \ {"notify"})
        /\ newlyAdded[p] = CountOutcomes(p, {"persisted", "notify"})

\* C6: no failure raised while a file is processed leaves the per-file
\* handler: the promise of runTaxAutomation is never rejected while a
\* scanned file is still to be finished.
C6_BatchCompletes ==
    \A p \in Procs :
        pc[p] = "rejected" => i[p] > Len(files[p])

\* C7: a failure of the ledger lookup or insert that is no duplicate ends
\* the run: the run stops at that file and does not handle it as a per-file
\* error.
C7_PersistenceFatal ==
    \A p \in Procs :
        \A k \in DOMAIN outcome[p] :
            outcome[p][k] = "store"
               => /\ pc[p] \in Stopped
                  /\ i[p] = k
                  /\ errors[p] = CountOutcomes(p, Failed \ {"store"})

\* C8: when two runs race on the same bytes, the second insert is rejected
\* and one record remains, and the losing run counts no error and shows no
\* failure notification for that file.
C8_RaceLoserSilent ==
    \A p \in Procs :
        \A k \in DOMAIN outcome[p] :
            outcome[p][k] = "duplicate"
               => /\ Cardinality({ r \in 1..Len(db.rows) :
                        db.rows[r].file_hash = Sha256(fs[files[p][k].path]) }) = 1
                  /\ errors[p] = CountOutcomes(p, Failed \ {"duplicate"})
                  /\ Note("error", k, 0, 0) \notin sent[p]

\* C9: every step leaves every row of the ledger in place with all its
\* fields, processed_at included; the ledger only grows.
C9_AppendOnly ==
    [][/\ Len(db'.rows) >= Len(db.rows)
       /\ \A k \in 1..Len(db.rows) : db'.rows[k] = db.rows[k]]_vars

\* A second program start found the table with one row, kept it, added a
\* row and exported the report.
C9_Witness ==
    /\ pc[1] = "done"
    /\ startLen[1] = 1
    /\ Len(db.rows) = 2
    /\ newlyAdded[1] = 1
    /\ csv.written
    /\ Len(csv.lines) = 2

\* The tax year of the 6-April rule for a date-only string.
RuleTaxYear(s) ==
    IF s.m > 4 \/ (s.m = 4 /\ s.d >= 6)
       THEN TaxYearLabel(s.y, s.y + 1)
       ELSE TaxYearLabel(s.y - 1, s.y)

\* C10: for every valid YYYY-MM-DD date of year Y and every time zone,
\* calculateTaxYear gives Y-(Y+1) from 6 April on and (Y-1)-Y before.
C10_TaxYearBoundary ==
    ret.set => ret.taxYear = RuleTaxYear(arg.date)

\* C11: a row whose currency is GBP, in whatever case the model wrote it, has
\* exchange_rate exactly 1.0 and total_gbp equal to total_original, whatever
\* the number of decimals of the amount, and no rate request was made for
\* its file.
C11_CurrencyIdentity ==
    /\ \A k \in 1..Len(db.rows) :
          db.rows[k].currency = "GBP"
             => /\ db.rows[k].exchange_rate = 1000
                /\ db.rows[k].total_gbp = db.rows[k].total_original
    /\ \A p \in Procs :
          (pc[p] = "insert" /\ IsBaseCurrency(inv[p].currency))
             => \A e \in fetched[p] : e.file # i[p]

\* The distance between two integers.
Distance(a, b) == IF a >= b THEN a - b ELSE b - a

\* C12: for every row of the ledger, total_gbp has two decimals and lies
\* within half a penny of total_original times the stored exchange_rate, and
\* computing it again from the stored total_original and exchange_rate gives
\* the stored total_gbp.
C12_RoundingStable ==
    \A k \in 1..Len(db.rows) :
        LET r == db.rows[k]
        IN  /\ r.total_gbp % 10 = 0
            /\ Distance(r.total_gbp * 1000, r.total_original * r.exchange_rate) <= 5000
            /\ ToFixed2(r.total_original, r.exchange_rate) = r.total_gbp

\* A USD invoice of 12.345 was stored at the rate 0.79 as 9.75, and an
\* invoice of 1.005 at the rate 1 as 1.00.
C12_Witness ==
    /\ \E k \in 1..Len(db.rows) :
          /\ db.rows[k].total_original = 12345
          /\ db.rows[k].exchange_rate = 790
          /\ db.rows[k].total_gbp = 9750
    /\ \E k \in 1..Len(db.rows) :
          /\ db.rows[k].total_original = 1005
          /\ db.rows[k].exchange_rate = 1000
          /\ db.rows[k].total_gbp = 1000

\* The rate requests of process p for file k that failed: the request threw
\* or its answer was no JSON (ok is FALSE), or the answer had no GBP rate.
FailedLookups(log, k) ==
    { e \in log : e.file = k /\ (~e.answer.ok \/ e.answer.gbp = Undefined) }

\* C13: the step in which the rate lookup for a currency other than GBP
\* fails goes on to the insert with the rate 1.0, counts no error and ends
\* the file in no failure; and the insert that follows stores exchange_rate
\* 1.0 and total_gbp as the original amount rounded to two decimals, and
\* counts the file as newly added, with no error counted.
C13_RateFallback ==
    [][\A p \in Procs :
          /\ ( /\ pc[p] = "rate"
               /\ pc'[p] \notin {"rate", "killed"}
               /\ FailedLookups(fetched'[p], i[p]) # {} )
             => /\ ~IsBaseCurrency(inv[p].currency)
                /\ pc'[p] = "insert"
                /\ rate'[p] = 1000
                /\ errors'[p] = errors[p]
                /\ outcome'[p] = outcome[p]
          /\ ( /\ pc[p] = "insert"
               /\ FailedLookups(fetched[p], i[p]) # {}
               /\ Len(db'.rows) > Len(db.rows) )
             => LET r == db'.rows[Len(db'.rows)]
                IN  /\ r.file_hash = hash[p]
                    /\ r.exchange_rate = 1000
                    /\ r.total_gbp % 10 = 0
                    /\ Distance(r.total_gbp, r.total_original) <= 5
                    /\ newlyAdded'[p] = newlyAdded[p] + 1
                    /\ errors'[p] = errors[p]
                    /\ outcome'[p][i[p]] = "persisted"]_vars

\* A run stored a USD invoice after its rate lookup failed, at the rate 1.0,
\* and completed with no error.
C13_Witness ==
    /\ pc[1] = "done"
    /\ errors[1] = 0
    /\ \E e \in fetched[1] :
          /\ e \in FailedLookups(fetched[1], e.file)
          /\ outcome[1][e.file] = "persisted"
          /\ \E k \in 1..Len(db.rows) :
                /\ db.rows[k].file_hash = Sha256(fs[files[1][e.file].path])
                /\ db.rows[k].currency = "USD"
                /\ db.rows[k].exchange_rate = 1000
                /\ db.rows[k].total_gbp = 12350

\* C14: model output whose date cannot be parsed never passes validation,
\* so no run goes on to the rate or the insert with such a date, and every
\* row of the ledger has a date of the form YYYY-MM-DD and a tax_year that
\* is not "Unknown".
C14_InvalidDateRejected ==
    /\ \A p \in Procs :
          pc[p] \in {"rate", "insert"} => NewDate(inv[p].date, tz) # NaN
    /\ \A k \in 1..Len(db.rows) :
          /\ db.rows[k].date.fmt = "iso"
          /\ db.rows[k].tax_year # Unknown

\* C15: model output whose vendorName or invoiceNumber is the empty string
\* never passes validation, and every row of the ledger has a vendor and an
\* invoice_num that are not empty.
C15_NonEmptyText ==
    /\ \A p \in Procs :
          pc[p] \in {"rate", "insert"}
             => inv[p].vendorName # "" /\ inv[p].invoiceNumber # ""
    /\ \A k \in 1..Len(db.rows) :
          db.rows[k].vendor # "" /\ db.rows[k].invoice_num # ""

\* C16: the step in which exportToCSV runs on a ledger that is not empty
\* leaves a report with exactly one line after the header for each row of
\* the ledger, none left out and none twice, whatever the report held
\* before and however many runs filled the ledger.
C16_ExportComplete ==
    [][\A p \in Procs :
          ( /\ pc[p] = "export"
            /\ pc'[p] = "summary"
            /\ newlyAdded[p] > 0
            /\ Len(db.rows) > 0 )
          => /\ csv'.written
             /\ Len(csv'.lines) = Len(db.rows)
             /\ \A k \in 1..Len(db.rows) :
                   Cardinality({ j \in 1..Len(csv'.lines) :
                                   csv'.lines[j].of = CsvLine(db.rows[k]) })
                     = Cardinality({ j \in 1..Len(db.rows) :
                                       CsvLine(db.rows[j]) = CsvLine(db.rows[k]) })]_vars

\* C17: a process that finds ROOT_FOLDER missing is at exit(1) with nothing
\* scanned, hashed, extracted, sent to the model or counted, and the step in
\* which it finds it missing leaves the database, its table and rows, and
\* the report as they were.
C17_MissingRootAborts ==
    [][\A p \in Procs :
          root'[p] = "missing"
             => /\ pc'[p] = "exit1"
                /\ files'[p] = <<>>
                /\ outcome'[p] = <<>>
                /\ hash'[p] = NoHash
                /\ extracted'[p] = {}
                /\ chatted'[p] = {}
                /\ newlyAdded'[p] = 0
                /\ root[p] # "missing" => (db' = db /\ csv' = csv)]_vars

\* On a machine with no database yet, the program was started without
\* ROOT_FOLDER: it is at exit(1) and there is still no database.
C17_Witness ==
    /\ root[1] = "missing"
    /\ pc[1] = "exit1"
    /\ db = NoDatabase
    /\ \E q \in Paths : fs[q] # NoFile

\* C18: for every row of the ledger whose stored date is a calendar date,
\* the stored tax_year is the tax year the 6-April rule gives for that
\* stored date, whatever form the model wrote the date in and whatever the
\* time zone of the process.
C18_TaxYearOfStoredDate ==
    \A k \in 1..Len(db.rows) :
        db.rows[k].date.fmt = "iso"
           => db.rows[k].tax_year = RuleTaxYear(db.rows[k].date)

\* The text of the file process p is at is empty or, trimmed, shorter than
\* 10 characters.
NoReadableText(p) ==
    LET t == TextOf(fs[files[p][i[p]].path])
    IN  t.raw = 0 \/ t.trimmed < 10

\* C19: the step that extracts a text which is empty or, trimmed, shorter
\* than 10 characters ends the file as a failure: an error is counted, the
\* model is not called and the ledger is unchanged; and the model is called
\* only for a file whose text was extracted and passed the length check.
C19_UnreadableFailsFast ==
    [][\A p \in Procs :
          /\ ( /\ pc[p] = "read"
               /\ pc'[p] \notin {"read", "killed"}
               /\ NoReadableText(p) )
             => /\ pc'[p] = "notifyErr"
                /\ outcome'[p][i[p]] \in Failed
                /\ errors'[p] = errors[p] + 1
                /\ newlyAdded'[p] = newlyAdded[p]
                /\ chatted'[p] = chatted[p]
                /\ db' = db
          /\ chatted'[p] \ chatted[p] # {}
             => /\ pc[p] = "chat"
                /\ i[p] \in extracted[p]
                /\ ~NoReadableText(p)]_vars

\* A run over a scanned image and a readable invoice completed: the image
\* was counted as a failure with no model call and no row, the invoice was
\* sent to the model and stored.
C19_Witness ==
    /\ pc[1] = "done"
    /\ outcome[1] = <<"unreadable", "persisted">>
    /\ extracted[1] = {1, 2}
    /\ chatted[1] = {2}
    /\ errors[1] = 1
    /\ Sha256(fs[files[1][1].path]) \notin Hashes(db.rows)

\* The files of the scan of process p that the loop has left behind.
Finished(p) == { k \in DOMAIN outcome[p] : k < i[p] }

\* C20 as claimed: every file the loop has left behind that was not skipped
\* as a duplicate was followed by a pause, and the pause is the same for
\* all of them, persisted or failed.
C20_SameThrottle ==
    \A p \in Procs :
        \A j, k \in Finished(p) :
            (outcome[p][j] # "skipped" /\ outcome[p][k] # "skipped")
               => /\ paused[p][j] > 0
                  /\ paused[p][j] = paused[p][k]

\* C20 as amended: every file the loop has left behind was skipped with no
\* pause, or persisted and followed by a pause of 250 ms, or failed and
\* followed by a pause of 1000 ms; the pause is over when the next file is
\* hashed.
C20_ThrottleByOutcome ==
    \A p \in Procs :
        \A k \in DOMAIN outcome[p] :
            IF k \in Finished(p)
               THEN \/ outcome[p][k] = "skipped" /\ paused[p][k] = 0
                    \/ outcome[p][k] = "persisted" /\ paused[p][k] = 250
                    \/ outcome[p][k] \in Failed /\ paused[p][k] = 1000
               ELSE paused[p][k] = 0

\* A run persisted its first file, paused 250 ms, failed on the second and
\* paused 1000 ms.
C20_Witness ==
    /\ pc[1] = "done"
    /\ outcome[1] = <<"persisted", "invalid">>
    /\ paused[1] = <<250, 1000>>

\* The summary notifications process p has shown.
Summaries(p) == { n \in sent[p] : n.kind = "summary" }

\* The files of the scan of process p whose row was inserted.
Inserted(p) == CountOutcomes(p, {"persisted", "notify"})

\* C21: the export and the summary come only after the last file has
\* reached a terminal state; and a run whose loop has completed with at
\* least one row inserted goes on to its end, where the report holds the
\* ledger and one summary has been shown whose New count is the number of
\* rows the run inserted and whose Errors count is the number of files that
\* ended without a row, in a failure.
C21_ExportAndSummary ==
    \A p \in Procs :
        /\ pc[p] \in {"export", "summary", "done"}
              => /\ i[p] = Len(files[p]) + 1
                 /\ CountOutcomes(p, {"pending"}) = 0
        /\ Summaries(p) # {} => pc[p] = "done"
        /\ (pc[p] = "rejected" /\ i[p] > Len(files[p])) => Inserted(p) = 0
        /\ (pc[p] = "done" /\ Inserted(p) > 0)
              => /\ csv.written
                 /\ Len(csv.lines) = Len(db.rows)
                 /\ Summaries(p) =
                       { Note("summary", 0, Inserted(p),
                              CountOutcomes(p, Failed \ {"notify"})) }

\* The rows the ledger got since process p scanned the folder that were
\* inserted for the k-th scanned file.
RowsOf(p, k) ==
    { r \in (startLen[p] + 1)..Len(db.rows) :
        db.rows[r].file_path = files[p][k].path }

\* C22: in a run, the files before the loop index have reached a terminal
\* state and the files after it have not been touched, so that only the
\* file at the index is in flight; the row of a file that was persisted is
\* in the ledger when the processing of any later file has begun, and the
\* rows of the run lie in the ledger in scan order.
C22_SequentialInScanOrder ==
    \A p \in Procs :
        pc[p] \notin {"idle", "killed", "exit1", "scan"}
           => /\ \A k \in DOMAIN outcome[p] :
                    /\ k < i[p] => outcome[p][k] # "pending"
                    /\ k > i[p]
                          => /\ outcome[p][k] = "pending"
                             /\ k \notin extracted[p] \cup chatted[p]
                             /\ \A e \in fetched[p] : e.file # k
                             /\ \A n \in sent[p] : n.file # k
                             /\ RowsOf(p, k) = {}
                    /\ (k < i[p] /\ outcome[p][k] \in {"persisted", "notify"})
                          => Cardinality(RowsOf(p, k)) = 1
              /\ \A j, k \in DOMAIN outcome[p] :
                    j < k => \A a \in RowsOf(p, j), b \in RowsOf(p, k) : a < b

\* A run over two new files stored the first before it began the second,
\* and then the second: the two rows lie in scan order.
C22_Witness ==
    /\ pc[1] = "done"
    /\ startLen[1] = 0
    /\ outcome[1] = <<"persisted", "persisted">>
    /\ RowsOf(1, 1) = {1}
    /\ RowsOf(1, 2) = {2}

\* C23: at the end of a completed run every scanned file has one terminal
\* outcome and is counted once: newlyAdded + errors + the skipped
\* duplicates is the number of scanned files, newlyAdded is the number of
\* rows the run added, and a file whose row was inserted is neither
\* counted as an error nor announced with a failure notification.
C23_CountedOnce ==
    \A p \in Procs :
        pc[p] = "done"
           => /\ CountOutcomes(p, {"pending"}) = 0
              /\ newlyAdded[p] + errors[p] + CountOutcomes(p, {"skipped"})
                    = Len(files[p])
              /\ newlyAdded[p] = Len(db.rows) - startLen[p]
              /\ errors[p] = CountOutcomes(p, Failed \ {"notify"})
              /\ \A k \in DOMAIN outcome[p] :
                    RowsOf(p, k) # {} => Note("error", k, 0, 0) \notin sent[p]

\* The report holds the ledger: the file is there and the text of every
\* row of the ledger was written to it once, none left out and none twice.
ReportHoldsLedger(report, d) ==
    /\ report.written
    /\ Cardinality({ j \in 1..Len(report.lines) : report.lines[j].piece = 1 })
          = Len(d.rows)
    /\ \A k \in 1..Len(d.rows) :
          Cardinality({ j \in 1..Len(report.lines) :
                          /\ report.lines[j].piece = 1
                          /\ report.lines[j].of = CsvLine(d.rows[k]) })
            = Cardinality({ j \in 1..Len(d.rows) :
                              CsvLine(d.rows[j]) = CsvLine(d.rows[k]) })

\* C24 as it was claimed: at the end of every completed run with a ledger
\* that is not empty the report has exactly one row for each row of the
\* ledger, also when the run persisted no record.
C24_ReportAlwaysComplete ==
    \A p \in Procs :
        (pc[p] = "done" /\ Len(db.rows) > 0)
           => /\ ReportHoldsLedger(csv, db)
              /\ Len(csv.lines) = Len(db.rows)

\* C24: a run that added a row to the ledger rewrites the report from the
\* whole ledger after its last file, and at its end the report holds the
\* text of every ledger row once; a run that added no row leaves the
\* report as it was.
C24_ReportWhenAdded ==
    [][\A p \in Procs :
          /\ (pc[p] = "export" /\ pc'[p] = "summary")
                => IF Len(db.rows) > startLen[p]
                      THEN ReportHoldsLedger(csv', db)
                      ELSE csv' = csv
          /\ (pc'[p] = "done" /\ Len(db'.rows) > startLen'[p])
                => ReportHoldsLedger(csv', db')]_vars

\* A run that found a row of an earlier, interrupted run in the ledger
\* added a second one and completed: the report holds both.
C24_Witness ==
    /\ pc[1] = "done"
    /\ startLen[1] = 1
    /\ Len(db.rows) = 2
    /\ csv.written
    /\ Len(csv.lines) = 2

\* C25: the row stored under a fingerprint was extracted from the bytes
\* that have this fingerprint: in the step that inserts a row, the digest
\* of the bytes that were read for extraction (line 232), whose text the
\* model was given, is the file_hash of the new row, also when the file
\* was written to between the read of getFileHash and the second read.
C25_HashOfExtractedBytes ==
    [][\A p \in Procs :
          (pc[p] = "insert" /\ Len(db'.rows) = Len(db.rows) + 1)
             => db'.rows[Len(db'.rows)].file_hash = Sha256(buf[p])]_vars

\* C26: a file that a run counted as failed has no row from that run, a
\* file is skipped only when a row with the fingerprint of its bytes is in
\* the ledger, so that a failed file is tried again by the next run, and
\* no file or fingerprint has more than one row.
C26_FailedLeavesNoTrace ==
    /\ \A p \in Procs :
          pc[p] \notin {"idle", "killed", "exit1", "scan"}
             => \A k \in DOMAIN outcome[p] :
                   /\ outcome[p][k] \in Failed => RowsOf(p, k) = {}
                   /\ Note("error", k, 0, 0) \in sent[p] => RowsOf(p, k) = {}
                   /\ outcome[p][k] = "skipped"
                         => Sha256(fs[files[p][k].path]) \in Hashes(db.rows)
                   /\ Cardinality(RowsOf(p, k)) <= 1
    /\ \A a, b \in 1..Len(db.rows) :
          db.rows[a].file_hash = db.rows[b].file_hash => a = b

====
